---- MODULE Spec2Model ----
(***************************************************************************)
(* Model of src/generic_gsheet_ingestor.js: the Generic GSheet Ingestion   *)
(* Service.  One cycle lists the spreadsheets, validates each one's setup  *)
(* (checkSetup), decides whether it is due (shouldTriggerIngestion) and,   *)
(* if so, provisions (createTableContainer) and loads                      *)
(* (insertDataToPostgres) its target table, writing audit rows             *)
(* (insertLogEntry).                                                       *)
(*                                                                         *)
(* Conventions.  A JavaScript value read from a sheet is a record with a   *)
(* `kind`: a string carries its `text`.  A Date is held as whole seconds   *)
(* since 2024-01-01T00:00:00 local time (every Date the service handles    *)
(* has zero milliseconds: processID by setSeconds(0, 0), first_ingestion   *)
(* by the sheet's date format); the instants of the model lie in January   *)
(* to March 2024, so local time is CET throughout.  The PostgreSQL server  *)
(* is modelled by the committed tables, the committed audit log and the    *)
(* working copy of the one open business transaction.                      *)
(***************************************************************************)
EXTENDS Integers, Sequences, FiniteSets, TLC

VARIABLES
    pc,          \* position of the single thread of control
    max_cycles,  \* main: const max_cycles
    counter,     \* main: var counter
    now,         \* the wall clock, in seconds
    processID,   \* main: var processID
    sheetsList,  \* main: const sheetsList
    idx,         \* main: position of `for (const sheet of sheetsList)`
    setup,       \* main: var setup
    validSetup,  \* main: var validSetup
    isDue,       \* main: whether line 412 was reached and found the sheet due
    data,        \* ingestCycle: const data
    metadata,    \* ingestCycle: const metadata
    table_name,  \* ingestCycle: var table_name
    itter,       \* insertDataToPostgres: var itter
    query,       \* insertDataToPostgres: const values, const placeholders (lines 273-284)
    i,           \* insertDataToPostgres: let i
    exc,         \* the exception being thrown or handled ("none" if none)
    logCall,     \* arguments and call site of the running insertLogEntry
    checkedOut,  \* pool: number of clients checked out
    tables,      \* database: committed target tables
    tx,          \* database: the open transaction of the business client
    auditLog,    \* database: committed rows of raw_gsheets.gsheet_ingestion_log
    events,      \* injected failures and valid, due setups read so far
    trace,       \* history: database calls made for the current sheet
    preLoad      \* history: the committed target table when the load began

vars == <<pc, query, max_cycles, counter, now, processID, sheetsList, idx, setup, validSetup, isDue,
          data, metadata, table_name, itter, i, exc, logCall, checkedOut,
          tables, tx, auditLog, events, trace, preLoad>>

(***************************************************************************)
(* Bounds of the model.                                                    *)
(***************************************************************************)
NumSheets == 2      \* spreadsheets returned by the drive listing
MaxCycles == 1      \* cycles of the main loop that are explored
MaxEvents == 2      \* injected failures plus valid, due setups read, per behaviour
MaxRows == 250      \* longest data range read from a sheet
MaxFreq == 3        \* largest frequency_value of the schedule inputs

(***************************************************************************)
(* Program constants.                                                      *)
(***************************************************************************)
batchSize == 100
Endless == -1
WaitSeconds == 60
SecondsPerMinute == 60

log_table_name == "raw_gsheets.gsheet_ingestion_log"
rangeNames == <<"metadata_range", "data_range", "table_name", "drop_table",
                "first_ingestion", "ingestion_type", "frequency_unit",
                "frequency_value">>

(***************************************************************************)
(* JavaScript values.                                                      *)
(***************************************************************************)
Undefined == [kind |-> "undefined"]
Null == [kind |-> "null"]
Str(s) == [kind |-> "string", text |-> s]
Arr(s) == [kind |-> "array", items |-> s]
Obj(f) == [kind |-> "object", fields |-> f]
NaN == [nan |-> TRUE, val |-> 0]
Num(n) == [nan |-> FALSE, val |-> n]

Min(a, b) == IF a < b THEN a ELSE b

\* Array.prototype.slice(from, to) on a sequence (0-based, end exclusive).
Slice(s, from, to) == SubSeq(s, from + 1, Min(to, Len(s)))

\* Math.floor(a / b) for b > 0.
MathFloorDiv(a, b) == a \div b

\* The % operator of JavaScript: the result takes the sign of the dividend;
\* NaN when the divisor is 0.
JsRem(a, b) ==
    LET absb == IF b < 0 THEN -b ELSE b
    IN  IF b = 0 THEN NaN
        ELSE IF a >= 0 THEN Num(a % absb) ELSE Num(-((-a) % absb))

(***************************************************************************)
(* Dates.  Local calendar of 2024, January to March.                       *)
(***************************************************************************)
DaysInMonth == <<31, 29, 31>>
SecondsPerDay == 24 * 3600

RECURSIVE MonthOf(_, _)
\* The 1-based month holding day-of-year index d (0-based), from month m on.
MonthOf(d, m) == IF d < DaysInMonth[m] THEN m ELSE MonthOf(d - DaysInMonth[m], m + 1)

RECURSIVE DaysBefore(_)
DaysBefore(m) == IF m = 1 THEN 0 ELSE DaysBefore(m - 1) + DaysInMonth[m - 1]

getMonth(t) == MonthOf(t \div SecondsPerDay, 1)
getDate(t) == (t \div SecondsPerDay) - DaysBefore(getMonth(t)) + 1
getHours(t) == (t % SecondsPerDay) \div 3600
getMinutes(t) == (t % 3600) \div 60
getSeconds(t) == t % 60

\* The instant of a local calendar date and time of 2024.
Instant(month, day, hours, minutes, seconds) ==
    (DaysBefore(month) + day - 1) * SecondsPerDay + hours * 3600 + minutes * 60 + seconds

TwoDigits(n) == IF n < 10 THEN "0" \o ToString(n) ELSE ToString(n)

\* The text of a date cell as the sheet renders it.
DateString(t) ==
    "2024-" \o TwoDigits(getMonth(t)) \o "-" \o TwoDigits(getDate(t)) \o " " \o
    TwoDigits(getHours(t)) \o ":" \o TwoDigits(getMinutes(t)) \o ":" \o
    TwoDigits(getSeconds(t))

\* Lines 382-386: toLocalISOString, the local date and time of an instant
\* as ISO text without the final Z.
toLocalISOString(date) ==
    "2024-" \o TwoDigits(getMonth(date)) \o "-" \o TwoDigits(getDate(date)) \o "T" \o
    TwoDigits(getHours(date)) \o ":" \o TwoDigits(getMinutes(date)) \o ":" \o
    TwoDigits(getSeconds(date)) \o ".000"

\* The anchor instants the sheets of the model use for first_ingestion.
T0 == Instant(2, 1, 0, 0, 0)
AnchorInstants == {T0, T0 + 30, T0 + 5 * 60, Instant(1, 31, 0, 0, 0)}

\* new Date(text): the instant whose rendering is the text, else Invalid Date.
NewDate(v) ==
    IF v.kind = "string" /\ \E t \in AnchorInstants : DateString(t) = v.text
    THEN Num(CHOOSE t \in AnchorInstants : DateString(t) = v.text)
    ELSE NaN

\* parseInt(text, 10) on the texts of the model: a decimal integer, else NaN.
ParseInt(v) ==
    IF v.kind = "string" /\ \E n \in -1 .. (MaxFreq + 1) : ToString(n) = v.text
    THEN Num(CHOOSE n \in -1 .. (MaxFreq + 1) : ToString(n) = v.text)
    ELSE NaN

\* A variant that zeroes the minutes as well.
getCurrentTimeRoundedToHour(t) == t - (t % 3600)

\* getCurrentTimeRoundedToMinute: now with seconds and milliseconds zeroed.
getCurrentTimeRoundedToMinute(t) == t - (t % 60)

(***************************************************************************)
(* shouldTriggerIngestion (lines 325-355).                                 *)
(***************************************************************************)
minutesPerUnit == [u \in {"Minute", "Hour", "Day", "Week"} |->
    CASE u = "Minute" -> 1 [] u = "Hour" -> 60 [] u = "Day" -> 1440 [] u = "Week" -> 10080]

\* Line 353 without its first conjunct.
DueIgnoringSign(timeDifference, unitMinutes) ==
    /\ ~unitMinutes.nan
    /\ JsRem(timeDifference, unitMinutes.val) = Num(0)

\* Line 353: timeDifference >= 0 && (timeDifference % unitMinutes === 0).
DueByInterval(timeDifference, unitMinutes) ==
    /\ timeDifference >= 0
    /\ ~unitMinutes.nan
    /\ JsRem(timeDifference, unitMinutes.val) = Num(0)

\* A variant of the monthly test that waits for the first ingestion.
DueByCalendarAfter(pid, first) ==
    /\ pid >= first
    /\ getDate(pid) = getDate(first)
    /\ getHours(pid) = getHours(first)
    /\ getMinutes(pid) = getMinutes(first)

\* Lines 344-346: the same day of the month, hour and minute.
DueByCalendar(pid, first) ==
    /\ getDate(pid) = getDate(first)
    /\ getHours(pid) = getHours(first)
    /\ getMinutes(pid) = getMinutes(first)

shouldTriggerIngestion(s, pid) ==
    IF s.fields["ingestion_type"] = Str("Manual") THEN FALSE
    ELSE LET firstIngestionDate == NewDate(s.fields["first_ingestion"])
             frequencyValue == ParseInt(s.fields["frequency_value"])
             unit == s.fields["frequency_unit"]
         IN  IF unit = Str("Month")
             THEN /\ ~firstIngestionDate.nan
                  /\ DueByCalendar(pid, firstIngestionDate.val)
             ELSE /\ ~firstIngestionDate.nan
                  /\ LET timeDifference ==
                             MathFloorDiv(pid - firstIngestionDate.val, SecondsPerMinute)
                         unitMinutes ==
                             IF unit.kind = "string" /\ unit.text \in DOMAIN minutesPerUnit
                                /\ ~frequencyValue.nan
                             THEN Num(minutesPerUnit[unit.text] * frequencyValue.val)
                             ELSE NaN
                     IN  DueByInterval(timeDifference, unitMinutes)

(***************************************************************************)
(* checkSetup (lines 145-199).  A spreadsheet document is the list of its  *)
(* named ranges and, for each, the `values` a batchGet returns for it.     *)
(***************************************************************************)
SetupPrefix == "'Setup'!"

Range(s) == {s[k] : k \in DOMAIN s}

\* Line 162: namedRanges.find(...): the first named range matching rangeName.
Matches(name, rangeName) == name = rangeName \/ name = SetupPrefix \o rangeName

HasRange(namedRanges, rangeName) ==
    \E k \in DOMAIN namedRanges : Matches(namedRanges[k], rangeName)

FoundRange(namedRanges, rangeName) ==
    namedRanges[CHOOSE k \in DOMAIN namedRanges :
                    /\ Matches(namedRanges[k], rangeName)
                    /\ \A j \in 1 .. (k - 1) : ~Matches(namedRanges[j], rangeName)]

\* Lines 161-169: the names that were not found, in rangeNames order.
missingRanges(namedRanges) ==
    SelectSeq(rangeNames, LAMBDA n : ~HasRange(namedRanges, n))

\* Lines 175-177: a range's values reduced to the first cell of its first row.
Flatten(v) ==
    IF v.kind = "array" /\ Len(v.items) > 0 /\ v.items[1].kind = "array"
    THEN IF Len(v.items[1].items) > 0 THEN v.items[1].items[1] ELSE Undefined
    ELSE v

\* Line 183: element === '' || element === null || element === undefined.
IsEmptyValue(v) == v = Str("") \/ v = Null \/ v = Undefined


\* Lines 171-193 once both spreadsheet calls have answered: the returned
\* { setup, validSetup }.  `var setup` is assigned only when no range is missing.
checkSetup(doc) ==
    IF Len(missingRanges(doc.namedRanges)) = 0
    THEN LET namedRangesValues ==
                 [k \in DOMAIN rangeNames |->
                     Flatten(doc.values[FoundRange(doc.namedRanges, rangeNames[k])])]
             fields == [n \in Range(rangeNames) |->
                           namedRangesValues[CHOOSE k \in DOMAIN rangeNames : rangeNames[k] = n]]
             hasEmptyValue == \E k \in DOMAIN namedRangesValues :
                                  IsEmptyValue(namedRangesValues[k])
         IN  [setup |-> Obj(fields), validSetup |-> ~hasEmptyValue]
    ELSE [setup |-> Undefined, validSetup |-> FALSE]

\* One cell holding a text, as batchGet returns it.
Cell(text) == Arr(<<Arr(<<Str(text)>>)>>)

TableText(sheet) == "t" \o ToString(sheet)

\* A well-formed document of the template: every range present and filled.
\* prefix is "" or SetupPrefix; blank is the set of ranges whose cell is blank
\* (batchGet returns no values for it); absent is the set of ranges not defined.
Doc(sheet, prefix, type, unit, value, first, drop, blank, absent) ==
    LET texts == [n \in Range(rangeNames) |->
                    CASE n = "metadata_range" -> "Metadata!A2:B"
                      [] n = "data_range" -> "Data!A2:Z"
                      [] n = "table_name" -> TableText(sheet)
                      [] n = "drop_table" -> drop
                      [] n = "first_ingestion" -> DateString(first)
                      [] n = "ingestion_type" -> type
                      [] n = "frequency_unit" -> unit
                      [] n = "frequency_value" -> ToString(value)]
    IN  [namedRanges |-> SelectSeq([k \in DOMAIN rangeNames |-> prefix \o rangeNames[k]],
                                   LAMBDA n : \A a \in absent : ~Matches(n, a)),
         values |-> [n \in {prefix \o r : r \in Range(rangeNames)} |->
                        LET r == CHOOSE r \in Range(rangeNames) : prefix \o r = n
                        IN  IF r \in blank THEN Undefined ELSE Cell(texts[r])]]

\* The documents a sheet can hold when the service reads it.
SheetDocs(sheet) ==
    { Doc(sheet, "", "Automatic", "Minute", 1, T0, "TRUE", {}, {}),
      Doc(sheet, SetupPrefix, "Automatic", "Minute", 1, T0, "FALSE", {}, {}),
      Doc(sheet, "", "Automatic", "Minute", 2, T0 + 5 * 60, "FALSE", {}, {}),
      Doc(sheet, "", "Manual", "Minute", 1, T0, "TRUE", {}, {}),
      Doc(sheet, "", "Automatic", "Minute", 1, T0, "TRUE", {}, {"frequency_value"}),
      Doc(sheet, "", "Automatic", "Minute", 1, T0, "FALSE", {"drop_table"}, {}) }

(***************************************************************************)
(* The database server.                                                    *)
(***************************************************************************)
schema_name == "raw_gsheets"
TableNameOf(sheet) == schema_name \o "." \o TableText(sheet)
Sheets == 1 .. NumSheets
TableNames == {TableNameOf(s) : s \in Sheets}

Absent == [exists |-> FALSE, cols |-> <<>>, rows |-> <<>>]
NoTx == [open |-> FALSE, aborted |-> FALSE, work |-> Absent]

\* The rows and columns a target table holds before the service first runs.
OldRows == <<-1, -2>>
OldCols == <<"id">>

\* BEGIN on the business client: the transaction sees the committed table.
BeginTx(name) == [open |-> TRUE, aborted |-> FALSE, work |-> tables[name]]

\* A statement the server rejects aborts the open transaction.
AbortTx(t) == IF t.open THEN [t EXCEPT !.aborted = TRUE] ELSE t

\* The committed tables once COMMIT has succeeded on transaction t.
Committed(tbls, t, name) ==
    IF t.open /\ ~t.aborted THEN [tbls EXCEPT ![name] = t.work] ELSE tbls

\* A variant of ROLLBACK that keeps what the transaction wrote.
RolledBackKeeping(tbls, t, name) ==
    IF t.open THEN [tbls EXCEPT ![name] = t.work] ELSE tbls

\* The committed tables once ROLLBACK has run on transaction t (line 291).
RolledBack(tbls, t, name) == tbls

\* A variant of TRUNCATE issued outside the transaction.
TruncatedOutsideTx(tbls, name) == [tbls EXCEPT ![name].rows = <<>>]

\* The committed tables once TRUNCATE has run inside the transaction (line 266).
Truncated(tbls, name) == tbls

(***************************************************************************)
(* What the spreadsheet service returns for the data and metadata ranges.  *)
(***************************************************************************)
Rows(n) == [k \in 1 .. n |-> k]
RowCounts == {0, batchSize, MaxRows}
\* response.data.values is absent when the range is blank.
DataChoices == {Undefined} \cup {Arr(Rows(n)) : n \in RowCounts}
NewCols == <<"id", "amount">>
MetadataChoices == {Undefined, Arr(NewCols)}

(***************************************************************************)
(* History: the calls made to the database for the current sheet.          *)
(***************************************************************************)
Ev(fn, op, ok) == [fn |-> fn, op |-> op, ok |-> ok]
Did(fn, op, ok) == trace' = Append(trace, Ev(fn, op, ok))

\* An external call fails (while the bound allows it) or works.
Fails == events < MaxEvents /\ events' = events + 1
Works == events' = events

\* A variant of client.release() that keeps the client checked out.
releaseNothing(n) == n

\* Lines 229, 254, 295: client.release() returns the client to the pool.
release(n) == n - 1

\* No INSERT has been built.
NoQuery == [values |-> <<>>, placeholders |-> <<>>]

NoLogCall == [desc |-> "", cat |-> "", err |-> "none", site |-> "none"]
sheetID == sheetsList[idx]

\* Before the service first runs, the tables of the even sheets exist and
\* hold rows; those of the odd sheets do not exist yet.
InitialTables ==
    [n \in TableNames |->
        IF \E s \in Sheets : s % 2 = 0 /\ n = TableNameOf(s)
        THEN [exists |-> TRUE, cols |-> OldCols, rows |-> OldRows]
        ELSE Absent]

(***************************************************************************)
(* Initial state: main has authorised and is about to test its loop.       *)
(***************************************************************************)
Constructed ==
    /\ pc = "while"
    /\ query = NoQuery
    /\ counter = 0
    /\ processID = 0
    /\ sheetsList = <<>>
    /\ idx = 0
    /\ setup = Undefined
    /\ validSetup = FALSE
    /\ isDue = FALSE
    /\ data = Undefined
    /\ metadata = Undefined
    /\ table_name = ""
    /\ itter = 0
    /\ i = 0
    /\ exc = "none"
    /\ logCall = NoLogCall
    /\ checkedOut = 0
    /\ tables = InitialTables
    /\ tx = NoTx
    /\ auditLog = <<>>
    /\ events = 0
    /\ trace = <<>>
    /\ preLoad = Absent

\* The service as the source configures it: max_cycles is -1.
Init ==
    /\ max_cycles = Endless
    /\ now = T0
    /\ Constructed

mainVars == <<max_cycles, counter, now, processID, sheetsList>>
checkVars == <<setup, validSetup, isDue>>
ingestVars == <<data, metadata, table_name>>
loadVars == <<itter, i, preLoad>>
dbVars == <<tables, tx, auditLog, checkedOut>>

\* The locals of the previous ingestCycle call are gone.
ScopeEnds ==
    /\ data' = Undefined
    /\ metadata' = Undefined
    /\ table_name' = ""
    /\ itter' = 0
    /\ i' = 0
    /\ preLoad' = Absent

\* What line 410 assigned in the previous iteration is dead: the next
\* iteration assigns both before it reads either.
IterationEnds ==
    /\ setup' = Undefined
    /\ validSetup' = FALSE
    /\ isDue' = FALSE

(***************************************************************************)
(* main (lines 389-430).                                                   *)
(***************************************************************************)
perpetual == IF max_cycles = -1 THEN 1 ELSE 0

\* Lines 400-403: the loop test, the counter and the cycle's processID.
StartCycle ==
    /\ pc = "while"
    /\ counter <= max_cycles \/ perpetual = 1
    /\ perpetual = 1 => counter < MaxCycles
    /\ counter' = counter + 1
    /\ processID' = getCurrentTimeRoundedToMinute(now)
    /\ trace' = <<>>
    /\ idx' = 0
    /\ ScopeEnds
    /\ IterationEnds
    /\ pc' = "list"
    /\ UNCHANGED <<query, max_cycles, now, sheetsList, dbVars, exc, logCall, events>>

\* A variant of main's catch that leaves the loop.
mainCatchExits == "done"

\* Lines 423-425: main's catch prints the error; the wait follows.
mainCatch == "wait"

\* Line 405: listGoogleSheets; a failure is caught at line 423.
ListSheets ==
    /\ pc = "list"
    /\ \/ /\ Works
          /\ sheetsList' = [k \in Sheets |-> k]
          /\ pc' = "for"
       \/ /\ Fails
          /\ sheetsList' = <<>>
          /\ pc' = mainCatch
    /\ UNCHANGED <<query, max_cycles, counter, now, processID, idx, checkVars, ingestVars,
                   loadVars, dbVars, exc, logCall, trace>>

\* Line 408: the next sheet of the list, or the end of the loop.
ForSheet ==
    /\ pc = "for"
    /\ IF idx < Len(sheetsList)
       THEN /\ idx' = idx + 1
            /\ trace' = <<>>
            /\ ScopeEnds
            /\ IterationEnds
            /\ pc' = "checkSetup"
       ELSE /\ pc' = "wait"
            /\ UNCHANGED <<idx, trace, checkVars, ingestVars, loadVars>>
    /\ UNCHANGED <<query, mainVars, dbVars, exc, logCall, events>>

\* Whether a document is one whose reading counts against MaxEvents.
IsValidAndDue(doc, pid) ==
    /\ checkSetup(doc).validSetup
    /\ shouldTriggerIngestion(checkSetup(doc).setup, pid)

\* Line 410: checkSetup on the document the sheet holds now.  Either
\* spreadsheet call may fail: checkSetup rethrows and line 423 catches.
CheckSetup ==
    /\ pc = "checkSetup"
    /\ \/ /\ \E doc \in SheetDocs(sheetID) :
                /\ setup' = checkSetup(doc).setup
                /\ validSetup' = checkSetup(doc).validSetup
                /\ IF IsValidAndDue(doc, processID)
                   THEN events < MaxEvents /\ events' = events + 1
                   ELSE events' = events
          /\ pc' = "decide"
       \/ /\ Fails
          /\ pc' = mainCatch
          /\ UNCHANGED <<setup, validSetup>>
    /\ UNCHANGED <<query, max_cycles, counter, now, processID, sheetsList, idx, isDue, ingestVars, loadVars,
                   dbVars, exc, logCall, trace>>

\* A variant of the guard of lines 411-412 that skips the validity test.
IngestsWhenDue(valid, due) == due

\* Lines 411-412: ingest only a valid setup that is due.
Ingests(valid, due) == valid /\ due

\* Lines 411-421.
Decide ==
    /\ pc = "decide"
    /\ isDue' = (validSetup /\ shouldTriggerIngestion(setup, processID))
    /\ IF Ingests(validSetup, setup.kind = "object" /\ shouldTriggerIngestion(setup, processID))
       THEN /\ pc' = "readData"
       ELSE /\ pc' = "for"
    /\ UNCHANGED <<query, mainVars, idx, setup, validSetup, ingestVars, loadVars, dbVars, exc,
                   logCall, events, trace>>

\* Lines 427-428: the cycle's work took some time; then wait one minute.
CycleWorkSeconds == {0, 30}

Wait ==
    /\ pc = "wait"
    /\ \E w \in CycleWorkSeconds : now' = now + w + WaitSeconds
    /\ pc' = "while"
    /\ UNCHANGED <<query, max_cycles, counter, processID, sheetsList, idx, checkVars, ingestVars, loadVars,
                   dbVars, exc, logCall, events, trace>>

(***************************************************************************)
(* ingestCycle (lines 300-322).                                            *)
(***************************************************************************)
\* A variant in which the catch of lines 319-321 rethrows to main's catch.
ingestCycleRethrows == "wait"

\* Lines 319-321: the error is printed and ingestCycle returns to the loop.
ingestCycleCatch == "for"

Caught ==
    /\ pc' = ingestCycleCatch
    /\ exc' = "none"

\* Line 302: readSheetData(sheets, sheetID, setup.data_range).
ReadData ==
    /\ pc = "readData"
    /\ \/ /\ Works
          /\ \E d \in DataChoices : data' = d
          /\ pc' = "readMeta"
          /\ UNCHANGED exc
       \/ /\ Fails
          /\ Caught
          /\ UNCHANGED data
    /\ UNCHANGED <<query, mainVars, idx, checkVars, metadata, table_name, loadVars, dbVars,
                   logCall, trace>>

\* Line 303: readSheetData(sheets, sheetID, setup.metadata_range).
ReadMetadata ==
    /\ pc = "readMeta"
    /\ \/ /\ Works
          /\ \E m \in MetadataChoices : metadata' = m
          /\ pc' = "branch"
          /\ UNCHANGED exc
       \/ /\ Fails
          /\ Caught
          /\ UNCHANGED metadata
    /\ UNCHANGED <<query, mainVars, idx, checkVars, data, table_name, loadVars, dbVars,
                   logCall, trace>>

\* A variant of line 306 that provisions whatever drop_table says.
ProvisionsAlways(s) == TRUE

\* Line 306: setup.drop_table == 'TRUE'.
Provisions(s) == s.fields["drop_table"] = Str("TRUE")

\* Lines 304-316: the table name, then createTableContainer when drop_table
\* is 'TRUE'.  metadata.map (line 236 or 312) throws a TypeError when the
\* metadata range came back without values.
Branch ==
    /\ pc = "branch"
    /\ table_name' = schema_name \o "." \o setup.fields["table_name"].text
    /\ IF metadata.kind # "array"
       THEN Caught
       ELSE /\ pc' = IF Provisions(setup) THEN "ctcConnect" ELSE "idpConnect"
            /\ UNCHANGED exc
    /\ UNCHANGED <<query, mainVars, idx, checkVars, data, metadata, loadVars, dbVars, logCall,
                   events, trace>>

(***************************************************************************)
(* insertLogEntry (lines 212-231), called from four sites.                 *)
(***************************************************************************)
CallLog(desc, cat, err, site) ==
    /\ logCall' = [desc |-> desc, cat |-> cat, err |-> err, site |-> site]
    /\ pc' = "logConnect"
    /\ exc' = "none"

\* Where insertLogEntry returns to, and the exception in flight there:
\* after the 'info' call the function ends or its catch block runs
\* (lines 248-249, 289-290); after the 'err' call e is thrown (lines 252, 293).
LogReturnPc(site, threw) ==
    CASE site = "ctcInfo" -> IF threw THEN "ctcRollback" ELSE "ctcFinally"
      [] site = "ctcErr" -> "ctcFinally"
      [] site = "idpInfo" -> IF threw THEN "idpRollback" ELSE "idpFinally"
      [] site = "idpErr" -> "idpFinally"

\* A variant without the `throw e` that ends the callers' catch blocks.
LogReturnSwallows(call, thrown) == thrown

LogReturnExc(call, thrown) ==
    IF thrown # "none" THEN thrown
    ELSE IF call.site \in {"ctcErr", "idpErr"} THEN call.err ELSE "none"

LogReturns(thrown) ==
    /\ pc' = LogReturnPc(logCall.site, thrown # "none")
    /\ exc' = LogReturnExc(logCall, thrown)
    /\ logCall' = NoLogCall

\* Line 214: pool.connect(), outside the try.
LogConnect ==
    /\ pc = "logConnect"
    /\ \/ /\ Works
          /\ Did("log", "CONNECT", TRUE)
          /\ checkedOut' = checkedOut + 1
          /\ pc' = "logBegin"
          /\ UNCHANGED <<exc, logCall>>
       \/ /\ Fails
          /\ Did("log", "CONNECT", FALSE)
          /\ LogReturns("dbError")
          /\ UNCHANGED checkedOut
    /\ UNCHANGED <<query, mainVars, idx, checkVars, ingestVars, loadVars, tables, tx, auditLog>>

\* Line 220.
LogBegin ==
    /\ pc = "logBegin"
    /\ \/ /\ Works
          /\ Did("log", "BEGIN", TRUE)
          /\ pc' = "logInsert"
          /\ UNCHANGED exc
       \/ /\ Fails
          /\ Did("log", "BEGIN", FALSE)
          /\ exc' = "dbError"
          /\ pc' = "logRollback"
    /\ UNCHANGED <<query, mainVars, idx, checkVars, ingestVars, loadVars, dbVars, logCall>>

\* Lines 221-223: the statement is built by concatenation, so the
\* apostrophes of a TypeError's message end the SQL literal early and the
\* server rejects it.
LogInsert ==
    /\ pc = "logInsert"
    /\ \/ /\ logCall.err # "typeError"
          /\ Works
          /\ Did("log", "INSERT", TRUE)
          /\ pc' = "logCommit"
          /\ UNCHANGED exc
       \/ /\ IF logCall.err = "typeError" THEN Works ELSE Fails
          /\ Did("log", "INSERT", FALSE)
          /\ exc' = "dbError"
          /\ pc' = "logRollback"
    /\ UNCHANGED <<query, mainVars, idx, checkVars, ingestVars, loadVars, dbVars, logCall>>

AuditRow(call) ==
    [gsheet_id |-> sheetID, process_id |-> toLocalISOString(processID), log_entry_desc |-> call.desc,
     log_entry_category |-> call.cat,
     err_message |-> IF call.err = "none" THEN "" ELSE call.err]

\* Line 224.
LogCommit ==
    /\ pc = "logCommit"
    /\ \/ /\ Works
          /\ Did("log", "COMMIT", TRUE)
          /\ auditLog' = Append(auditLog, AuditRow(logCall))
          /\ pc' = "logFinally"
          /\ UNCHANGED exc
       \/ /\ Fails
          /\ Did("log", "COMMIT", FALSE)
          /\ exc' = "dbError"
          /\ pc' = "logRollback"
          /\ UNCHANGED auditLog
    /\ UNCHANGED <<query, mainVars, idx, checkVars, ingestVars, loadVars, tables, tx, checkedOut,
                   logCall>>

\* Lines 226-227: ROLLBACK, then throw e (or the error of the ROLLBACK).
LogRollback ==
    /\ pc = "logRollback"
    /\ \/ /\ Works
          /\ Did("log", "ROLLBACK", TRUE)
       \/ /\ Fails
          /\ Did("log", "ROLLBACK", FALSE)
    /\ pc' = "logFinally"
    /\ UNCHANGED <<query, mainVars, idx, checkVars, ingestVars, loadVars, dbVars, logCall, exc>>

\* Line 229: client.release(), then back to the caller.
LogFinally ==
    /\ pc = "logFinally"
    /\ checkedOut' = release(checkedOut)
    /\ LogReturns(exc)
    /\ UNCHANGED <<query, mainVars, idx, checkVars, ingestVars, loadVars, tables, tx, auditLog,
                   events, trace>>

(***************************************************************************)
(* createTableContainer (lines 234-256).                                   *)
(***************************************************************************)
\* Line 238: pool.connect(), outside the try: a failure reaches ingestCycle.
CtcConnect ==
    /\ pc = "ctcConnect"
    /\ \/ /\ Works
          /\ Did("ctc", "CONNECT", TRUE)
          /\ checkedOut' = checkedOut + 1
          /\ pc' = "ctcBegin"
          /\ UNCHANGED exc
       \/ /\ Fails
          /\ Did("ctc", "CONNECT", FALSE)
          /\ Caught
          /\ UNCHANGED checkedOut
    /\ UNCHANGED <<query, mainVars, idx, checkVars, ingestVars, loadVars, tables, tx, auditLog,
                   logCall>>

\* Line 240.
CtcBegin ==
    /\ pc = "ctcBegin"
    /\ \/ /\ Works
          /\ Did("ctc", "BEGIN", TRUE)
          /\ tx' = BeginTx(table_name)
          /\ pc' = "ctcDrop"
          /\ UNCHANGED exc
       \/ /\ Fails
          /\ Did("ctc", "BEGIN", FALSE)
          /\ exc' = "dbError"
          /\ pc' = "ctcRollback"
          /\ UNCHANGED tx
    /\ UNCHANGED <<query, mainVars, idx, checkVars, ingestVars, loadVars, tables, auditLog,
                   checkedOut, logCall>>

\* Lines 241-243: drop table if exists ... cascade.
CtcDrop ==
    /\ pc = "ctcDrop"
    /\ \/ /\ Works
          /\ Did("ctc", "DROP", TRUE)
          /\ tx' = [tx EXCEPT !.work = Absent]
          /\ pc' = "ctcCreate"
          /\ UNCHANGED exc
       \/ /\ Fails
          /\ Did("ctc", "DROP", FALSE)
          /\ tx' = AbortTx(tx)
          /\ exc' = "dbError"
          /\ pc' = "ctcRollback"
    /\ UNCHANGED <<query, mainVars, idx, checkVars, ingestVars, loadVars, tables, auditLog,
                   checkedOut, logCall>>

\* Lines 244-245: CREATE TABLE with the columns of the metadata range.
CtcCreate ==
    /\ pc = "ctcCreate"
    /\ \/ /\ Works
          /\ Did("ctc", "CREATE", TRUE)
          /\ tx' = [tx EXCEPT !.work = [exists |-> TRUE, cols |-> metadata.items,
                                        rows |-> <<>>]]
          /\ pc' = "ctcCommit"
          /\ UNCHANGED exc
       \/ /\ Fails
          /\ Did("ctc", "CREATE", FALSE)
          /\ tx' = AbortTx(tx)
          /\ exc' = "dbError"
          /\ pc' = "ctcRollback"
    /\ UNCHANGED <<query, mainVars, idx, checkVars, ingestVars, loadVars, tables, auditLog,
                   checkedOut, logCall>>

\* Lines 247-248: COMMIT, then the 'info' audit row.
CtcCommit ==
    /\ pc = "ctcCommit"
    /\ \/ /\ Works
          /\ Did("ctc", "COMMIT", TRUE)
          /\ tables' = Committed(tables, tx, table_name)
          /\ tx' = NoTx
          /\ CallLog("Table " \o table_name \o " was successgully created / recreated",
                     "info", "none", "ctcInfo")
       \/ /\ Fails
          /\ Did("ctc", "COMMIT", FALSE)
          /\ tx' = AbortTx(tx)
          /\ exc' = "dbError"
          /\ pc' = "ctcRollback"
          /\ UNCHANGED <<tables, logCall>>
    /\ UNCHANGED <<query, mainVars, idx, checkVars, ingestVars, loadVars, auditLog, checkedOut>>

\* Lines 250-251: ROLLBACK, then the 'err' audit row.  A failed ROLLBACK
\* leaves the catch block at once.
CtcRollback ==
    /\ pc = "ctcRollback"
    /\ \/ /\ Works
          /\ Did("ctc", "ROLLBACK", TRUE)
          /\ tables' = RolledBack(tables, tx, table_name)
          /\ tx' = NoTx
          /\ CallLog("Error occured during creation / recreation of table " \o table_name,
                     "err", exc, "ctcErr")
       \/ /\ Fails
          /\ Did("ctc", "ROLLBACK", FALSE)
          /\ exc' = "dbError"
          /\ pc' = "ctcFinally"
          /\ UNCHANGED <<tables, tx, logCall>>
    /\ UNCHANGED <<query, mainVars, idx, checkVars, ingestVars, loadVars, auditLog, checkedOut>>

\* Line 254: client.release(); a transaction still open ends with the
\* session.  Then the exception, if any, reaches ingestCycle's catch.
CtcFinally ==
    /\ pc = "ctcFinally"
    /\ checkedOut' = release(checkedOut)
    /\ tx' = NoTx
    /\ IF exc # "none"
       THEN Caught
       ELSE /\ pc' = "idpConnect"
            /\ UNCHANGED exc
    /\ UNCHANGED <<query, mainVars, idx, checkVars, ingestVars, loadVars, tables, auditLog,
                   logCall, events, trace>>

(***************************************************************************)
(* insertDataToPostgres (lines 259-297).                                   *)
(***************************************************************************)
\* A variant of line 272 that drops the last row of every batch.
ShortBatch(rows, from) == Slice(rows, from, from + batchSize - 1)

\* Line 272: data.slice(i, i + batchSize).
Batch(rows, from) == Slice(rows, from, from + batchSize)

\* Lines 260-261: pool.connect(), outside the try.
IdpConnect ==
    /\ pc = "idpConnect"
    /\ \/ /\ Works
          /\ Did("idp", "CONNECT", TRUE)
          /\ checkedOut' = checkedOut + 1
          /\ itter' = 0
          /\ i' = 0
          /\ preLoad' = tables[table_name]
          /\ pc' = "idpBegin"
          /\ UNCHANGED exc
       \/ /\ Fails
          /\ Did("idp", "CONNECT", FALSE)
          /\ Caught
          /\ UNCHANGED <<checkedOut, loadVars>>
    /\ UNCHANGED <<query, mainVars, idx, checkVars, ingestVars, tables, tx, auditLog, logCall>>

\* Line 263.
IdpBegin ==
    /\ pc = "idpBegin"
    /\ \/ /\ Works
          /\ Did("idp", "BEGIN", TRUE)
          /\ tx' = BeginTx(table_name)
          /\ pc' = "idpTruncate"
          /\ UNCHANGED exc
       \/ /\ Fails
          /\ Did("idp", "BEGIN", FALSE)
          /\ exc' = "dbError"
          /\ pc' = "idpRollback"
          /\ UNCHANGED tx
    /\ UNCHANGED <<query, mainVars, idx, checkVars, ingestVars, loadVars, tables, auditLog,
                   checkedOut, logCall>>

\* Lines 265-266: TRUNCATE TABLE; the server rejects it when the table
\* does not exist.
IdpTruncate ==
    /\ pc = "idpTruncate"
    /\ \/ /\ tx.work.exists
          /\ Works
          /\ Did("idp", "TRUNCATE", TRUE)
          /\ tx' = [tx EXCEPT !.work.rows = <<>>]
          /\ tables' = Truncated(tables, table_name)
          /\ pc' = "idpLoop"
          /\ UNCHANGED exc
       \/ /\ IF tx.work.exists THEN Fails ELSE Works
          /\ Did("idp", "TRUNCATE", FALSE)
          /\ tx' = AbortTx(tx)
          /\ exc' = "dbError"
          /\ pc' = "idpRollback"
          /\ UNCHANGED tables
    /\ UNCHANGED <<query, mainVars, idx, checkVars, ingestVars, loadVars, auditLog, checkedOut,
                   logCall>>

\* Lines 270-286: one turn of the batch loop.  data.length throws a
\* TypeError when the data range came back without values.
IdpLoop ==
    /\ pc = "idpLoop"
    /\ \/ /\ data.kind # "array"
          /\ Works
          /\ exc' = "typeError"
          /\ pc' = "idpRollback"
          /\ UNCHANGED <<itter, i, tx, trace>>
       \/ /\ data.kind = "array"
          /\ i < Len(data.items)
          /\ Works
          /\ itter' = itter + 1
          /\ Did("idp", "INSERT", TRUE)
          /\ tx' = [tx EXCEPT !.work.rows = tx.work.rows \o Batch(data.items, i)]
          /\ i' = i + batchSize
          /\ pc' = "idpLoop"
          /\ UNCHANGED exc
       \/ /\ data.kind = "array"
          /\ i < Len(data.items)
          /\ Fails
          /\ itter' = itter + 1
          /\ Did("idp", "INSERT", FALSE)
          /\ tx' = AbortTx(tx)
          /\ exc' = "dbError"
          /\ pc' = "idpRollback"
          /\ UNCHANGED i
       \/ /\ data.kind = "array"
          /\ i >= Len(data.items)
          /\ Works
          /\ pc' = "idpCommit"
          /\ UNCHANGED <<itter, i, tx, trace, exc>>
    /\ UNCHANGED <<query, mainVars, idx, checkVars, ingestVars, preLoad, tables, auditLog,
                   checkedOut, logCall>>

\* Lines 288-289: COMMIT, then the 'info' audit row.
IdpCommit ==
    /\ pc = "idpCommit"
    /\ \/ /\ Works
          /\ Did("idp", "COMMIT", TRUE)
          /\ tables' = Committed(tables, tx, table_name)
          /\ tx' = NoTx
          /\ CallLog("Table " \o table_name \o " was successfully repopulated. (" \o
                     ToString(itter) \o " itterations of " \o ToString(batchSize) \o
                     " records)", "info", "none", "idpInfo")
       \/ /\ Fails
          /\ Did("idp", "COMMIT", FALSE)
          /\ tx' = AbortTx(tx)
          /\ exc' = "dbError"
          /\ pc' = "idpRollback"
          /\ UNCHANGED <<tables, logCall>>
    /\ UNCHANGED <<query, mainVars, idx, checkVars, ingestVars, loadVars, auditLog, checkedOut>>

\* Lines 291-292: ROLLBACK, then the 'err' audit row.
IdpRollback ==
    /\ pc = "idpRollback"
    /\ \/ /\ Works
          /\ Did("idp", "ROLLBACK", TRUE)
          /\ tables' = RolledBack(tables, tx, table_name)
          /\ tx' = NoTx
          /\ CallLog("Table " \o table_name \o " ingestion failed", "err", exc, "idpErr")
       \/ /\ Fails
          /\ Did("idp", "ROLLBACK", FALSE)
          /\ exc' = "dbError"
          /\ pc' = "idpFinally"
          /\ UNCHANGED <<tables, tx, logCall>>
    /\ UNCHANGED <<query, mainVars, idx, checkVars, ingestVars, loadVars, auditLog, checkedOut>>

\* Line 295: client.release(); then ingestCycle returns, or its catch runs.
IdpFinally ==
    /\ pc = "idpFinally"
    /\ checkedOut' = release(checkedOut)
    /\ tx' = NoTx
    /\ IF exc # "none"
       THEN Caught
       ELSE /\ pc' = "for"
            /\ UNCHANGED exc
    /\ UNCHANGED <<query, mainVars, idx, checkVars, ingestVars, loadVars, tables, auditLog,
                   logCall, events, trace>>

(***************************************************************************)
(* The service.                                                            *)
(***************************************************************************)
Next ==
    \/ StartCycle \/ ListSheets \/ ForSheet \/ CheckSetup \/ Decide \/ Wait
    \/ ReadData \/ ReadMetadata \/ Branch
    \/ LogConnect \/ LogBegin \/ LogInsert \/ LogCommit \/ LogRollback \/ LogFinally
    \/ CtcConnect \/ CtcBegin \/ CtcDrop \/ CtcCreate \/ CtcCommit \/ CtcRollback
    \/ CtcFinally
    \/ IdpConnect \/ IdpBegin \/ IdpTruncate \/ IdpLoop \/ IdpCommit \/ IdpRollback
    \/ IdpFinally

Spec == Init /\ [][Next]_vars

\* main is one thread of control and every call it awaits is taken to
\* settle, by resolving or by rejecting: a step that can be taken is taken.
SpecFair == Spec /\ WF_vars(Next)

(***************************************************************************)
(* The service in bounded mode: max_cycles is set to a number that is not  *)
(* negative, and the first cycle may start anywhere within a minute.       *)
(***************************************************************************)
BoundedModes == {0, 1}
StartInstants == {T0, T0 + 30}

BoundedInit ==
    /\ max_cycles \in BoundedModes
    /\ now \in StartInstants
    /\ Constructed

\* Lines 400 and 429-430: the loop test fails and main returns.
ExitLoop ==
    /\ pc = "while"
    /\ ~(counter <= max_cycles \/ perpetual = 1)
    /\ pc' = "done"
    /\ UNCHANGED <<query, mainVars, idx, checkVars, ingestVars, loadVars, dbVars, exc, logCall,
                   events, trace>>

NextBounded == Next \/ ExitLoop

SpecBounded == BoundedInit /\ [][NextBounded]_vars

(***************************************************************************)
(* shouldTriggerIngestion on its own: the configurations and cycle         *)
(* timestamps it is applied to are drawn from bounded sets.                *)
(***************************************************************************)
FrequencyUnits == {"Minute", "Hour", "Day", "Week", "Month"}

SchedSetups ==
    { checkSetup(Doc(1, "", type, unit, value, first, "FALSE", {}, {})).setup :
        type \in {"Automatic", "Manual"}, unit \in FrequencyUnits,
        value \in 1 .. MaxFreq, first \in AnchorInstants }

\* Whole minutes between T0 and the cycle timestamps tried.
SchedDeltas ==
    {-44640, -10080, -1440, -60, -2, -1, 0, 1, 2, 3, 4, 5, 6, 59, 60, 61, 120, 180, 240,
     1440, 1441, 2880, 4320, 5760, 10080, 10081, 20160, 30240, 40320, 41760}

SchedProcessIDs == {T0 + d * SecondsPerMinute : d \in SchedDeltas}

SchedInit ==
    /\ pc = "sched"
    /\ query = NoQuery
    /\ max_cycles = Endless
    /\ setup \in SchedSetups
    /\ processID \in SchedProcessIDs
    /\ isDue = FALSE
    /\ validSetup = TRUE
    /\ counter = 0
    /\ now = T0
    /\ sheetsList = <<>>
    /\ idx = 0
    /\ data = Undefined
    /\ metadata = Undefined
    /\ table_name = ""
    /\ itter = 0
    /\ i = 0
    /\ exc = "none"
    /\ logCall = NoLogCall
    /\ checkedOut = 0
    /\ tables = InitialTables
    /\ tx = NoTx
    /\ auditLog = <<>>
    /\ events = 0
    /\ trace = <<>>
    /\ preLoad = Absent

\* Line 412: the call shouldTriggerIngestion(setup, processID).
Evaluate ==
    /\ pc = "sched"
    /\ isDue' = shouldTriggerIngestion(setup, processID)
    /\ pc' = "schedDone"
    /\ UNCHANGED <<query, mainVars, idx, setup, validSetup, ingestVars, loadVars, dbVars, exc,
                   logCall, events, trace>>

SchedNext == Evaluate

SpecSched == SchedInit /\ [][SchedNext]_vars

(***************************************************************************)
(* The INSERT of one batch (lines 273-285) on its own: the text and the    *)
(* parameters built for a batch whose rows are drawn from bounded sets.    *)
(* The sheet read leaves out the trailing empty cells of a row, so the     *)
(* rows of a batch need not have the same length.                          *)
(***************************************************************************)
MaxCols == 2
MaxBatchRows == 2

\* Cell texts: the second matches isNumeric's pattern, the first does not.
CellTexts == {"a", "1,000"}

\* Lines 202-204, over the cell texts of the model.
isNumeric(value) == value \in {"1,000"}

\* Lines 207-209: the commas are removed.
cleanNumericValue(value) == IF value = "1,000" THEN "1000" ELSE value

SheetRows == UNION {[1 .. n -> CellTexts] : n \in 0 .. MaxCols}
Batches == UNION {[1 .. n -> SheetRows] : n \in 0 .. MaxBatchRows}

\* Lines 275-280: what row.forEach pushes onto values for one row; the
\* second cell (columnIndex === 1) is cleaned when it is numeric.
Pushed(row) ==
    [j \in 1 .. Len(row) |->
        IF j - 1 = 1 /\ isNumeric(row[j]) THEN cleanNumericValue(row[j]) ELSE row[j]]

RECURSIVE ValuesOf(_)
ValuesOf(batch) ==
    IF batch = <<>> THEN <<>>
    ELSE ValuesOf(SubSeq(batch, 1, Len(batch) - 1)) \o Pushed(batch[Len(batch)])

\* Line 281: the numbers n of the placeholders $n of the tuple of one row
\* (rowIndex and index count from 0).
TupleOf(row, rowIndex) ==
    [j \in 1 .. Len(row) |-> rowIndex * Len(row) + (j - 1) + 1]

\* Lines 273-284: the parameters and, tuple by tuple, the placeholders.
InsertOf(batch) ==
    [values |-> ValuesOf(batch),
     placeholders |-> [r \in 1 .. Len(batch) |-> TupleOf(batch[r], r - 1)]]

InsertInit ==
    /\ pc = "build"
    /\ data \in {Arr(b) : b \in Batches}
    /\ query = NoQuery
    /\ max_cycles = Endless
    /\ counter = 0
    /\ now = T0
    /\ processID = 0
    /\ sheetsList = <<>>
    /\ idx = 0
    /\ setup = Undefined
    /\ validSetup = FALSE
    /\ isDue = FALSE
    /\ metadata = Undefined
    /\ table_name = ""
    /\ itter = 0
    /\ i = 0
    /\ exc = "none"
    /\ logCall = NoLogCall
    /\ checkedOut = 0
    /\ tables = InitialTables
    /\ tx = NoTx
    /\ auditLog = <<>>
    /\ events = 0
    /\ trace = <<>>
    /\ preLoad = Absent

\* Lines 273-284 for the batch held in data.
BuildInsert ==
    /\ pc = "build"
    /\ query' = InsertOf(data.items)
    /\ pc' = "built"
    /\ UNCHANGED <<mainVars, idx, checkVars, ingestVars, loadVars, dbVars, exc, logCall,
                   events, trace>>

InsertNext == BuildInsert

SpecInsert == InsertInit /\ [][InsertNext]_vars

(***************************************************************************)
(* Properties.                                                             *)
(***************************************************************************)
IngestPcs ==
    {"readData", "readMeta", "branch",
     "ctcConnect", "ctcBegin", "ctcDrop", "ctcCreate", "ctcCommit", "ctcRollback",
     "ctcFinally",
     "idpConnect", "idpBegin", "idpTruncate", "idpLoop", "idpCommit", "idpRollback",
     "idpFinally",
     "logConnect", "logBegin", "logInsert", "logCommit", "logRollback", "logFinally"}

\* The call fn made op with result ok for the current sheet.
Happened(fn, op, ok) == \E k \in DOMAIN trace : trace[k] = Ev(fn, op, ok)
HowMany(fn, op, ok) == Cardinality({k \in DOMAIN trace : trace[k] = Ev(fn, op, ok)})

LoadBegan == Happened("idp", "CONNECT", TRUE)
LoadCommitted == Happened("idp", "COMMIT", TRUE)
ChunkFailed == Happened("idp", "INSERT", FALSE)
\* insertDataToPostgres has returned or thrown for the current sheet.
LoadEnded == LoadBegan /\ pc \in {"for", "wait", "while"}

\* Positions in the audit log of the rows of the current sheet and cycle.
CurrentRows ==
    {k \in DOMAIN auditLog :
        /\ idx > 0
        /\ auditLog[k].gsheet_id = sheetsList[idx]
        /\ auditLog[k].process_id = toLocalISOString(processID)}

\* C1: a load is all-or-nothing: from the moment the load begins, the
\* committed target table is either what it was when the load began or,
\* once COMMIT has succeeded, that table holding exactly the full row
\* list; no other contents are ever committed, whichever statement fails.
C1_LoadAllOrNothing ==
    LoadBegan =>
        IF LoadCommitted
        THEN /\ data.kind = "array"
             /\ tables[table_name] = [preLoad EXCEPT !.rows = data.items]
        ELSE tables[table_name] = preLoad

\* C1 witness: a load of several chunks whose second or later INSERT
\* failed has ended, and the table holds its old, non-empty contents.
C1_Witness ==
    /\ LoadEnded
    /\ ChunkFailed
    /\ Happened("idp", "INSERT", TRUE)
    /\ preLoad.rows # <<>>
    /\ tables[table_name] = preLoad

\* C2 as claimed: after a chunk insert failed, the target table ends
\* empty, whatever it held before the load.
C2_EmptyAfterChunkFailure ==
    (LoadEnded /\ ChunkFailed) => tables[table_name].rows = <<>>

\* C2 amended: after a chunk insert failed, the target table ends with
\* exactly the contents it had when the load began; that is the empty,
\* just recreated table when drop_table is 'TRUE'.
C2_PreLoadAfterChunkFailure ==
    (LoadEnded /\ ChunkFailed) =>
        /\ tables[table_name] = preLoad
        /\ setup.fields["drop_table"] = Str("TRUE") =>
               preLoad = [exists |-> TRUE, cols |-> metadata.items, rows |-> <<>>]

\* C2 witness: a chunk insert failed, drop_table is not 'TRUE', and the
\* table still holds the rows it held before the load.
C2_Witness ==
    /\ LoadEnded
    /\ ChunkFailed
    /\ setup.fields["drop_table"] # Str("TRUE")
    /\ tables[table_name].rows = OldRows

\* C3: whatever ends ingestCycle for a sheet, control returns to the loop
\* over the same sheet list in the same cycle; from there every remaining
\* sheet is validated, and a valid sheet that is due is ingested.
C3_IngestFailureIsIsolated ==
    [][ /\ (pc \in IngestPcs /\ pc' \notin IngestPcs) =>
               /\ pc' = "for"
               /\ idx' = idx
               /\ sheetsList' = sheetsList
               /\ processID' = processID
        /\ (pc = "for" /\ idx < Len(sheetsList)) =>
               (pc' = "checkSetup" /\ idx' = idx + 1)
        /\ (pc = "decide" /\ validSetup /\ shouldTriggerIngestion(setup, processID)) =>
               pc' = "readData" ]_vars

\* C3 witness: the first sheet's load failed and was audited as an error,
\* and the second sheet is being loaded in the same cycle.
C3_Witness ==
    /\ idx = 2
    /\ pc = "idpLoop"
    /\ \E k \in DOMAIN auditLog :
          /\ auditLog[k].gsheet_id = sheetsList[1]
          /\ auditLog[k].process_id = toLocalISOString(processID)
          /\ auditLog[k].log_entry_category = "err"

\* C4 as claimed: a spreadsheet failure for one sheet does not abort the
\* cycle: a cycle that listed its sheets reaches its wait only after the
\* last sheet of the list.
C4_SetupFailureDoesNotAbortCycle ==
    (pc = "wait" /\ Len(sheetsList) > 0) => idx = Len(sheetsList)

\* The minutes of a frequency unit, as the claims state them.
ClaimedUnitMinutes(u) ==
    CASE u = "Minute" -> 1 [] u = "Hour" -> 60 [] u = "Day" -> 1440 [] u = "Week" -> 10080

\* C5: for an Automatic configuration with unit Minute, Hour, Day or Week,
\* positive frequency value v and first ingestion T, the result is true
\* iff delta = floor((processID - T) / 1 minute) is >= 0 and a multiple of
\* v * unitMinutes; it is never true when processID is earlier than T.
C5_DueIffNonNegativeMultiple ==
    pc = "schedDone" =>
        \A u \in {"Minute", "Hour", "Day", "Week"}, v \in 1 .. MaxFreq, T \in AnchorInstants :
            ( /\ setup.fields["ingestion_type"] = Str("Automatic")
              /\ setup.fields["frequency_unit"] = Str(u)
              /\ setup.fields["frequency_value"] = Str(ToString(v))
              /\ setup.fields["first_ingestion"] = Str(DateString(T)) ) =>
                LET delta == (processID - T) \div 60
                IN  /\ isDue <=> (delta >= 0 /\ delta % (v * ClaimedUnitMinutes(u)) = 0)
                    /\ processID < T => ~isDue

\* C5 witness: a weekly schedule whose first ingestion falls 30 seconds
\* into a minute is found due 10080 whole minutes later.
C5_Witness ==
    /\ pc = "schedDone"
    /\ isDue
    /\ setup.fields["frequency_unit"] = Str("Week")
    /\ setup.fields["frequency_value"] = Str("1")
    /\ setup.fields["first_ingestion"] = Str(DateString(T0 + 30))
    /\ processID = T0 + 10081 * 60

\* C6: database calls for a sheet, the audit inserts among them, and audit
\* rows for the sheet in this cycle exist only if the sheet's setup
\* validated in this cycle, its ingestion_type is not Manual and
\* shouldTriggerIngestion is true of it and the cycle's processID.
C6_DatabaseOnlyWhenValidAndDue ==
    (trace # <<>> \/ CurrentRows # {}) =>
        /\ validSetup
        /\ setup.fields["ingestion_type"] # Str("Manual")
        /\ shouldTriggerIngestion(setup, processID)

\* C6 witness: a valid, due sheet has been loaded and audited.
C6_Witness ==
    /\ LoadCommitted
    /\ CurrentRows # {}
    /\ validSetup

\* C7 as claimed: a document with a missing range or an empty value is
\* reported invalid, and an invalid outcome carries no field values.
C7_InvalidSetupCarriesNoFields ==
    /\ \A doc \in SheetDocs(1) :
          ( \/ Len(missingRanges(doc.namedRanges)) > 0
            \/ \E n \in DOMAIN doc.values : IsEmptyValue(Flatten(doc.values[n])) ) =>
                ~checkSetup(doc).validSetup
    /\ (pc = "decide" /\ ~validSetup) => setup = Undefined

Ceil(n, d) == (n + d - 1) \div d

IdpOps ==
    LET ev == SelectSeq(trace, LAMBDA e : e.fn = "idp")
    IN  [k \in DOMAIN ev |-> ev[k]]

ExpectedLoad(n) ==
    <<Ev("idp", "CONNECT", TRUE), Ev("idp", "BEGIN", TRUE), Ev("idp", "TRUNCATE", TRUE)>>
    \o [k \in 1 .. Ceil(n, 100) |-> Ev("idp", "INSERT", TRUE)]
    \o <<Ev("idp", "COMMIT", TRUE)>>

\* C8: a load of n rows that commits has issued, on its client, BEGIN,
\* one TRUNCATE, exactly ceil(n / 100) INSERTs and COMMIT, in that order;
\* after k INSERTs the transaction holds rows 1 .. min(100k, n) in input
\* order (so chunk k is rows 100(k-1)+1 .. min(100k, n)); the committed
\* table holds the n rows.
C8_ChunkedLoad ==
    /\ (pc \in {"idpLoop", "idpCommit"} /\ data.kind = "array") =>
           LET k == HowMany("idp", "INSERT", TRUE)
               n == Len(data.items)
           IN  /\ tx.work.rows = SubSeq(data.items, 1, Min(100 * k, n))
               /\ itter = k
    /\ LoadCommitted =>
           LET n == Len(data.items)
           IN  /\ Len(IdpOps) >= Len(ExpectedLoad(n))
               /\ SubSeq(IdpOps, 1, Len(ExpectedLoad(n))) = ExpectedLoad(n)
               /\ HowMany("idp", "INSERT", TRUE) = Ceil(n, 100)
               /\ ~Happened("idp", "INSERT", FALSE)
               /\ tables[table_name].rows = data.items
               /\ Len(tables[table_name].rows) = n

\* C8 witness: the longest row list has been loaded in more than two
\* chunks and committed.
C8_Witness ==
    /\ LoadCommitted
    /\ Len(data.items) = MaxRows
    /\ HowMany("idp", "INSERT", TRUE) > 2
    /\ Len(tables[table_name].rows) = MaxRows

\* The function whose transaction an audit row of the current sheet describes.
StepOf(row) ==
    IF \/ row.log_entry_desc = "Table " \o table_name \o " ingestion failed"
       \/ row.log_entry_desc =
              "Table " \o table_name \o " was successfully repopulated. (" \o
              ToString(itter) \o " itterations of " \o ToString(batchSize) \o " records)"
    THEN "idp" ELSE "ctc"

\* C9 as claimed: an 'info' row describes a step whose transaction
\* committed, an 'err' row a step whose transaction did not.
C9_AuditMatchesOutcome ==
    \A k \in CurrentRows :
        /\ auditLog[k].log_entry_category = "info" =>
               Happened(StepOf(auditLog[k]), "COMMIT", TRUE)
        /\ auditLog[k].log_entry_category = "err" =>
               ~Happened(StepOf(auditLog[k]), "COMMIT", TRUE)

\* C10 as claimed: once ingestCycle has ended for a valid, due sheet and
\* no call of an audit insert failed, the audit log holds a row with the
\* sheet's id and the cycle's processID.
C10_EveryAttemptAudited ==
    ( /\ pc = "for"
      /\ isDue
      /\ ~\E k \in DOMAIN trace : trace[k].fn = "log" /\ ~trace[k].ok ) =>
        CurrentRows # {}

\* The clients a correct caller holds at each position: the business client
\* from its pool.connect to its finally, and the audit client on top of it
\* from insertLogEntry's pool.connect to its finally.
ClientsHeld ==
    CASE pc \in {"ctcBegin", "ctcDrop", "ctcCreate", "ctcCommit", "ctcRollback",
                 "ctcFinally", "idpBegin", "idpTruncate", "idpLoop", "idpCommit",
                 "idpRollback", "idpFinally", "logConnect"} -> 1
      [] pc \in {"logBegin", "logInsert", "logCommit", "logRollback", "logFinally"} -> 2
      [] OTHER -> 0

\* C11: every client checked out by insertLogEntry, createTableContainer
\* or insertDataToPostgres is released exactly once on every exit path:
\* the pool's count is exactly the number of calls still between their
\* pool.connect and their finally, so it is zero whenever main is at the
\* next source, at the end of a cycle or between cycles.
C11_EveryClientReleased ==
    /\ checkedOut = ClientsHeld
    /\ pc \notin IngestPcs => checkedOut = 0

\* C11 witness: a load whose TRUNCATE failed and whose audit insert inside
\* the catch failed too has ended, and no client is checked out.
C11_Witness ==
    /\ pc = "for"
    /\ checkedOut = 0
    /\ Happened("idp", "TRUNCATE", FALSE)
    /\ \E k \in DOMAIN trace : trace[k].fn = "log" /\ ~trace[k].ok

\* C12 as claimed: at most one pool client is checked out at any time.
C12_AtMostOneClient == checkedOut <= 1

\* createTableContainer is running for the current sheet, its audit
\* inserts included.
InProvisioning ==
    \/ pc \in {"ctcConnect", "ctcBegin", "ctcDrop", "ctcCreate", "ctcCommit",
               "ctcRollback", "ctcFinally"}
    \/ logCall.site \in {"ctcInfo", "ctcErr"}

ProvisioningFailed == Happened("ctc", "DROP", FALSE) \/ Happened("ctc", "CREATE", FALSE)

\* C13: provisioning is atomic.  While createTableContainer runs, the
\* committed tables change only in its COMMIT, only after DROP and CREATE
\* both succeeded, and then to the empty table with the metadata's
\* columns; if DROP or CREATE failed nothing is committed, the failure is
\* in flight when the function ends and goes to ingestCycle's catch, and
\* no statement of a load is issued for the sheet in that cycle.
C13_ProvisioningIsAtomic ==
    /\ [](ProvisioningFailed =>
             /\ ~Happened("ctc", "COMMIT", TRUE)
             /\ \A k \in DOMAIN trace : trace[k].fn # "idp"
             /\ pc = "ctcFinally" => exc # "none")
    /\ [][ /\ (InProvisioning /\ tables' # tables) =>
                  /\ pc = "ctcCommit"
                  /\ Happened("ctc", "DROP", TRUE)
                  /\ Happened("ctc", "CREATE", TRUE)
                  /\ tables' = [tables EXCEPT ![table_name] =
                                   [exists |-> TRUE, cols |-> metadata.items, rows |-> <<>>]]
           /\ (ProvisioningFailed /\ pc = "ctcFinally") => pc' = "for" ]_vars

\* C13 witness: CREATE TABLE failed for a table that existed, and after the
\* attempt the table still has its old columns and rows.
C13_Witness ==
    /\ pc = "for"
    /\ Happened("ctc", "DROP", TRUE)
    /\ Happened("ctc", "CREATE", FALSE)
    /\ tables[table_name] = [exists |-> TRUE, cols |-> OldCols, rows |-> OldRows]

RECURSIVE CellsBefore(_, _)
CellsBefore(batch, r) ==
    IF r = 1 THEN 0 ELSE CellsBefore(batch, r - 1) + Len(batch[r - 1])

\* C15 as claimed: in the INSERT built for a batch, the placeholder at
\* position j of the i-th tuple is the one bound to the value pushed for
\* cell j of row i, and every placeholder number from 1 to the number of
\* values pushed is written exactly once.
C15_ValuesBoundByPosition ==
    pc = "built" =>
        LET batch == data.items
            cells == {<<r, j>> \in (1 .. Len(batch)) \X (1 .. MaxCols + 1) :
                         j <= Len(batch[r])}
        IN  /\ \A c \in cells :
                   query.placeholders[c[1]][c[2]] = CellsBefore(batch, c[1]) + c[2]
            /\ \A n \in 1 .. Len(query.values) :
                   Cardinality({c \in cells : query.placeholders[c[1]][c[2]] = n}) = 1

C17_ExactlyMaxCycles ==
    /\ (pc = "done" /\ max_cycles >= 0) => counter = max_cycles
    /\ max_cycles = -1 => pc # "done"

\* The audit row reports a committed load of its sheet.
IsLoadInfo(row) ==
    /\ row.log_entry_category = "info"
    /\ row.log_entry_desc #
           "Table " \o TableNameOf(row.gsheet_id) \o " was successgully created / recreated"

C19_NoMinuteSkipped ==
    [][ (pc = "while" /\ pc' = "list" /\ counter > 0) =>
            processID' = processID + 60 ]_vars

\* C20: with drop_table 'TRUE', provisioning and loading are two
\* transactions in that order: every statement of the load comes after
\* every statement of provisioning and after its COMMIT; if provisioning
\* committed and the load did not, the attempt leaves the table recreated
\* with the new columns and no rows.  With any other drop_table no
\* statement of createTableContainer is issued.
C20_ProvisionThenLoad ==
    trace # <<>> =>
        /\ setup.fields["drop_table"] # Str("TRUE") =>
               \A k \in DOMAIN trace : trace[k].fn # "ctc"
        /\ setup.fields["drop_table"] = Str("TRUE") =>
               /\ \A k, l \in DOMAIN trace :
                      (trace[k].fn = "ctc" /\ trace[l].fn = "idp") => k < l
               /\ (\E l \in DOMAIN trace : trace[l].fn = "idp") =>
                      Happened("ctc", "COMMIT", TRUE)
               /\ ( /\ pc \in {"for", "wait", "while"}
                    /\ Happened("ctc", "COMMIT", TRUE)
                    /\ ~LoadCommitted ) =>
                      tables[table_name] =
                          [exists |-> TRUE, cols |-> metadata.items, rows |-> <<>>]

\* C20 witness: provisioning committed, a chunk insert of the load then
\* failed, and the table that held rows before the cycle is left with the
\* new columns and no rows.
C20_Witness ==
    /\ pc = "for"
    /\ Happened("ctc", "COMMIT", TRUE)
    /\ ChunkFailed
    /\ InitialTables[table_name].rows = OldRows
    /\ tables[table_name] = [exists |-> TRUE, cols |-> NewCols, rows |-> <<>>]

====
